---------------------------- MODULE Spec2Model ----------------------------
(***************************************************************************)
(* Model of the BLE servo controller ("message 2.py"): the write handler   *)
(* NumberReceiverService._set_number, the read path, and the rotation jobs *)
(* (control_servo / rotate_servo) that the handler hands to the event      *)
(* loop's default thread-pool executor.                                    *)
(*                                                                         *)
(* Payloads are sequences of byte values 0..255.  The handler runs on the  *)
(* single-threaded event loop and is one atomic step; every job runs on a  *)
(* worker thread and is split at each access to shared state               *)
(* (current_angle, the servo pulse width).                                 *)
(***************************************************************************)
EXTENDS Integers, Sequences, FiniteSets

VARIABLES
    _value,         \* NumberReceiverService._value: raw bytes of the last stored write
    current_angle,  \* module global current_angle
    pulse,          \* pulse width last set on SERVO_PIN (0: none set yet)
    jobs,           \* control_servo calls submitted to the executor, in submission order
    log,            \* history: payload of every write delivered to the handler
    rsp,            \* return value of the latest handler / getter call
    startup         \* module start: "pending", "connected" or "aborted" (exit)

vars == <<_value, current_angle, pulse, jobs, log, rsp, startup>>

-----------------------------------------------------------------------------
(* Bounds of the model. *)

\* Number of write events delivered to the handler in one behaviour.
MaxWrites == 2

\* Angles of SpecDelta range over -MaxAngle .. MaxAngle.
MaxAngle == 360

-----------------------------------------------------------------------------
(* Calibration constants. *)

SERVO_MIN_PULSE == 1000
SERVO_MAX_PULSE == 2000
STOP_PULSE == 1500

\* TIME_PER_60_DEG = 0.124 s, in milliseconds.  Durations of the model are
\* counted in sixtieths of a millisecond, which keeps |delta| * k / 60 exact.
TIME_PER_60_DEG == 124

-----------------------------------------------------------------------------
(* bytes.decode('utf-8'), str.strip() and int(): lines 112-113.            *)

\* data is None on the read path of the setter.
None == <<-1>>

Abs(n) == IF n < 0 THEN -n ELSE n

\* A raised ValueError (UnicodeDecodeError is a subclass of it).
Raised == [ok |-> FALSE, val |-> 0]

\* UTF-8 validity of the 1-byte and 2-byte forms (every payload of the model
\* is built from ASCII bytes, 0xC2, 0xA0 and 0xFF, so longer forms never
\* occur): FALSE is UnicodeDecodeError.
RECURSIVE Decodable(_)
Decodable(bs) ==
    IF bs = <<>> THEN TRUE
    ELSE IF Head(bs) < 128 THEN Decodable(Tail(bs))
    ELSE IF /\ Head(bs) >= 194 /\ Head(bs) <= 223
            /\ Len(bs) >= 2
            /\ bs[2] >= 128 /\ bs[2] <= 191
         THEN Decodable(Tail(Tail(bs)))
    ELSE FALSE

\* data.decode('utf-8') of decodable bytes: the sequence of code points.
RECURSIVE Decode(_)
Decode(bs) ==
    IF bs = <<>> THEN <<>>
    ELSE IF Head(bs) < 128 THEN <<Head(bs)>> \o Decode(Tail(bs))
    ELSE <<(Head(bs) - 192) * 64 + (bs[2] - 128)>> \o Decode(Tail(Tail(bs)))

\* str.isspace() for the code points below U+0800.
IsSpace(c) == c \in (9..13) \cup (28..32) \cup {133, 160}

\* str.strip(): leading and trailing whitespace removed.
RECURSIVE LStrip(_)
LStrip(s) == IF s # <<>> /\ IsSpace(Head(s)) THEN LStrip(Tail(s)) ELSE s

RECURSIVE RStrip(_)
RStrip(s) ==
    IF s # <<>> /\ IsSpace(s[Len(s)]) THEN RStrip(SubSeq(s, 1, Len(s) - 1)) ELSE s

Strip(s) == RStrip(LStrip(s))

IsDigit(c) == c >= 48 /\ c <= 57

\* A base-10 literal body: digits, with single underscores allowed only
\* between two digits.
RECURSIVE IsDigits(_)
IsDigits(s) ==
    /\ s # <<>>
    /\ IsDigit(Head(s))
    /\ \/ Len(s) = 1
       \/ IsDigits(Tail(s))
       \/ Len(s) >= 3 /\ s[2] = 95 /\ IsDigits(Tail(Tail(s)))

\* Value of a literal body, most significant digit first; acc is the value
\* read so far, underscores are skipped.
RECURSIVE DigitsValue(_, _)
DigitsValue(s, acc) ==
    IF s = <<>> THEN acc
    ELSE IF Head(s) = 95 THEN DigitsValue(Tail(s), acc)
    ELSE DigitsValue(Tail(s), acc * 10 + (Head(s) - 48))

\* int(text): optional sign, then a literal body; anything else raises.
IntOf(s) ==
    LET signed == s # <<>> /\ Head(s) \in {43, 45}
        body   == IF signed THEN Tail(s) ELSE s
    IN  IF ~IsDigits(body) THEN Raised
        ELSE [ok  |-> TRUE,
              val |-> IF signed /\ Head(s) = 45
                      THEN -DigitsValue(body, 0) ELSE DigitsValue(body, 0)]

\* int(data.decode('utf-8').strip())
ParseAngle(data) ==
    IF ~Decodable(data) THEN Raised ELSE IntOf(Strip(Decode(data)))

-----------------------------------------------------------------------------
(* Inputs of the model. *)

\* Write payloads: "90", " -9" followed by a no-break space (whitespace on
\* both sides), "720" (outside one turn), "abc" (not an integer) and the
\* byte 0xFF (not UTF-8).
Payloads ==
    { <<57, 48>>,
      <<32, 45, 57, 194, 160>>,
      <<55, 50, 48>>,
      <<97, 98, 99>>,
      <<255>> }

\* str(n).encode(): the decimal text of an integer, as bytes.
RECURSIVE NatBytes(_)
NatBytes(n) ==
    IF n < 10 THEN <<48 + n>> ELSE NatBytes(n \div 10) \o <<48 + (n % 10)>>

IntBytes(n) == IF n < 0 THEN <<45>> \o NatBytes(-n) ELSE NatBytes(n)

-----------------------------------------------------------------------------
(* control_servo and rotate_servo, run by a worker thread of the executor.  *)
(* A job is [target, pc, seen, difference_angle, pulse_width, time_needed];  *)
(* pc is                                                                    *)
(*   "queued"  submitted, line 64 not yet run                               *)
(*   "rotate"  delta computed, about to enter rotate_servo                  *)
(*   "hold"    drive pulse set, inside time.sleep                           *)
(*   "commit"  rotate_servo returned, line 77 not yet run                   *)
(*   "done"    control_servo returned                                       *)
(* seen is the value of current_angle read at line 64; time_needed is the   *)
(* argument of time.sleep (0 until line 45 has run).                        *)

PcValues == {"queued", "rotate", "hold", "commit", "done"}

\* The job the executor receives for control_servo(target_angle).
NewJob(target_angle) ==
    [target |-> target_angle, pc |-> "queued", seen |-> 0,
     difference_angle |-> 0, pulse_width |-> 0, time_needed |-> 0]

\* ShortestPath without its else branch: a raw difference below -180 is
\* left as it is.
ShortestPath_no_negative_branch(difference_angle) ==
    IF difference_angle > 180 THEN -(360 - difference_angle) ELSE difference_angle

\* ShortestPath with the sign of the positive branch dropped.
ShortestPath_sign_slip(difference_angle) ==
    IF Abs(difference_angle) > 180
    THEN IF difference_angle > 0
         THEN 360 - difference_angle
         ELSE 360 + difference_angle
    ELSE difference_angle

\* ShortestPath with the half-turn tie always resolved clockwise (+180).
ShortestPath_tie_clockwise(difference_angle) ==
    IF difference_angle > 180 THEN -(360 - difference_angle)
    ELSE IF difference_angle <= -180 THEN 360 + difference_angle
    ELSE difference_angle

\* Lines 67-72: take the shorter way round when the raw difference exceeds
\* half a turn.
ShortestPath(difference_angle) ==
    IF Abs(difference_angle) > 180
    THEN IF difference_angle > 0
         THEN -(360 - difference_angle)
         ELSE 360 + difference_angle
    ELSE difference_angle

\* Lines 64-72: the delta from the tracked angle to the target.
Delta(current, target_angle) == ShortestPath(target_angle - current)

\* DrivePulse with the two directions exchanged.
DrivePulse_swapped(difference_angle) ==
    LET direction == IF difference_angle > 0 THEN 1 ELSE -1
    IN  IF direction = 1 THEN SERVO_MIN_PULSE ELSE SERVO_MAX_PULSE

\* Lines 74-75: direction and the drive pulse that goes with it.
DrivePulse(difference_angle) ==
    LET direction == IF difference_angle > 0 THEN 1 ELSE -1
    IN  IF direction = 1 THEN SERVO_MAX_PULSE ELSE SERVO_MIN_PULSE

\* Lines 63-75: read current_angle, compute the delta and the pulse width.
control_servo_compute(j) ==
    /\ jobs[j].pc = "queued"
    /\ LET d == Delta(current_angle, jobs[j].target)
       IN  jobs' = [jobs EXCEPT ![j] =
                       [@ EXCEPT !.pc = "rotate",
                                 !.seen = current_angle,
                                 !.difference_angle = d,
                                 !.pulse_width = DrivePulse(d)]]
    /\ UNCHANGED <<_value, current_angle, pulse, log, rsp>>

\* TimeNeeded without the abs() of line 45.
TimeNeeded_no_abs(relative_degrees) == relative_degrees * TIME_PER_60_DEG

\* Line 45: the time to hold the drive pulse, in sixtieths of a millisecond.
TimeNeeded(relative_degrees) == Abs(relative_degrees) * TIME_PER_60_DEG

\* rotate_servo_begin without the zero test of line 40: the drive pulse is
\* set and the sleep entered for every delta.
rotate_servo_begin_no_zero_check(j) ==
    /\ jobs[j].pc = "rotate"
    /\ pulse' = jobs[j].pulse_width
    /\ jobs' = [jobs EXCEPT
                   ![j].pc = "hold",
                   ![j].time_needed = TimeNeeded(jobs[j].difference_angle)]
    /\ UNCHANGED <<_value, current_angle, log, rsp>>

\* rotate_servo up to its first return or sleep: lines 40-42 (zero delta:
\* neutral pulse, return) or lines 45-48 (drive pulse, then sleep).
rotate_servo_begin(j) ==
    /\ jobs[j].pc = "rotate"
    /\ \/ /\ jobs[j].difference_angle = 0
          /\ pulse' = STOP_PULSE
          /\ jobs' = [jobs EXCEPT ![j].pc = "commit"]
       \/ /\ jobs[j].difference_angle # 0
          /\ pulse' = jobs[j].pulse_width
          /\ jobs' = [jobs EXCEPT
                         ![j].pc = "hold",
                         ![j].time_needed = TimeNeeded(jobs[j].difference_angle)]
    /\ UNCHANGED <<_value, current_angle, log, rsp>>

\* rotate_servo_end without line 50: the sleep ends and the pulse is left
\* as it is.
rotate_servo_end_no_stop(j) ==
    /\ jobs[j].pc = "hold"
    /\ jobs' = [jobs EXCEPT ![j].pc = "commit"]
    /\ UNCHANGED <<_value, current_angle, pulse, log, rsp>>

\* rotate_servo_end when the sleep of line 49 never returns.
rotate_servo_end_sleeps_forever(j) ==
    /\ jobs[j].pc = "hold"
    /\ UNCHANGED <<_value, current_angle, pulse, jobs, log, rsp>>

\* Lines 49-51: the sleep ends and the neutral pulse is set.
rotate_servo_end(j) ==
    /\ jobs[j].pc = "hold"
    /\ pulse' = STOP_PULSE
    /\ jobs' = [jobs EXCEPT ![j].pc = "commit"]
    /\ UNCHANGED <<_value, current_angle, log, rsp>>

\* Line 77: current_angle = target_angle.
control_servo_commit(j) ==
    /\ jobs[j].pc = "commit"
    /\ current_angle' = jobs[j].target
    /\ jobs' = [jobs EXCEPT ![j].pc = "done"]
    /\ UNCHANGED <<_value, pulse, log, rsp>>

-----------------------------------------------------------------------------
(* The characteristic: getter and setter, run on the event loop.            *)

\* Number of rotation jobs inside their hold phase.
Holding == Cardinality({j \in DOMAIN jobs : jobs[j].pc = "hold"})

\* What a call returned: a bool (setter on a write) or the stored bytes
\* (getter, setter without data).  busy is the number of jobs that were in
\* their hold phase when the call returned.
Returned(kind, ok, val) == [kind |-> kind, ok |-> ok, val |-> val, busy |-> Holding]

\* Lines 98-100: the read returns the stored value.
number_characteristic ==
    /\ rsp' = Returned("bytes", TRUE, _value)
    /\ UNCHANGED <<_value, current_angle, pulse, jobs, log>>

\* The setter waiting for the rotations of earlier writes before it takes
\* the next one.
_set_number_waits(data) ==
    IF data = None
    THEN /\ rsp' = Returned("bytes", TRUE, _value)
         /\ UNCHANGED <<_value, current_angle, pulse, jobs, log>>
    ELSE /\ Len(log) < MaxWrites
         /\ \A j \in DOMAIN jobs : jobs[j].pc = "done"
         /\ log' = Append(log, data)
         /\ LET parsed == ParseAngle(data)
            IN  IF parsed.ok
                THEN /\ _value' = data
                     /\ jobs' = Append(jobs, NewJob(parsed.val))
                     /\ rsp' = Returned("bool", TRUE, <<>>)
                ELSE /\ rsp' = Returned("bool", FALSE, <<>>)
                     /\ UNCHANGED <<_value, jobs>>
         /\ UNCHANGED <<current_angle, pulse>>

\* The setter storing the raw bytes before it parses them.
_set_number_stores_first(data) ==
    IF data = None
    THEN /\ rsp' = Returned("bytes", TRUE, _value)
         /\ UNCHANGED <<_value, current_angle, pulse, jobs, log>>
    ELSE /\ Len(log) < MaxWrites
         /\ log' = Append(log, data)
         /\ LET parsed == ParseAngle(data)
            IN  IF parsed.ok
                THEN /\ _value' = data
                     /\ jobs' = Append(jobs, NewJob(parsed.val))
                     /\ rsp' = Returned("bool", TRUE, <<>>)
                ELSE /\ rsp' = Returned("bool", FALSE, <<>>)
                     /\ _value' = data /\ UNCHANGED jobs
         /\ UNCHANGED <<current_angle, pulse>>

\* The setter storing the text of the parsed integer instead of the raw bytes.
_set_number_reencodes(data) ==
    IF data = None
    THEN /\ rsp' = Returned("bytes", TRUE, _value)
         /\ UNCHANGED <<_value, current_angle, pulse, jobs, log>>
    ELSE /\ Len(log) < MaxWrites
         /\ log' = Append(log, data)
         /\ LET parsed == ParseAngle(data)
            IN  IF parsed.ok
                THEN /\ _value' = IntBytes(parsed.val)
                     /\ jobs' = Append(jobs, NewJob(parsed.val))
                     /\ rsp' = Returned("bool", TRUE, <<>>)
                ELSE /\ rsp' = Returned("bool", FALSE, <<>>)
                     /\ UNCHANGED <<_value, jobs>>
         /\ UNCHANGED <<current_angle, pulse>>

\* _set_number that submits a job (target 0) for a malformed write too.
_set_number_submits_always(data) ==
    IF data = None
    THEN /\ rsp' = Returned("bytes", TRUE, _value)
         /\ UNCHANGED <<_value, current_angle, pulse, jobs, log>>
    ELSE /\ Len(log) < MaxWrites
         /\ log' = Append(log, data)
         /\ LET parsed == ParseAngle(data)
            IN  /\ jobs' = Append(jobs, NewJob(parsed.val))
                /\ IF parsed.ok
                   THEN /\ _value' = data
                        /\ rsp' = Returned("bool", TRUE, <<>>)
                   ELSE /\ rsp' = Returned("bool", FALSE, <<>>)
                        /\ UNCHANGED _value
         /\ UNCHANGED <<current_angle, pulse>>

\* Lines 102-127: the setter.  Without data it answers like a read; with
\* data it parses, stores the raw bytes, submits control_servo to the
\* executor and returns True, or returns False when the parse raises.
_set_number(data) ==
    IF data = None
    THEN /\ rsp' = Returned("bytes", TRUE, _value)
         /\ UNCHANGED <<_value, current_angle, pulse, jobs, log>>
    ELSE /\ Len(log) < MaxWrites
         /\ log' = Append(log, data)
         /\ LET parsed == ParseAngle(data)
            IN  IF parsed.ok
                THEN /\ _value' = data
                     /\ jobs' = Append(jobs, NewJob(parsed.val))
                     /\ rsp' = Returned("bool", TRUE, <<>>)
                ELSE /\ rsp' = Returned("bool", FALSE, <<>>)
                     /\ UNCHANGED <<_value, jobs>>
         /\ UNCHANGED <<current_angle, pulse>>

-----------------------------------------------------------------------------
(* The system: the handler on the event loop, the jobs on worker threads.   *)
(* The default executor has min(32, cpu_count + 4) >= 5 workers, more than  *)
(* the writes of a behaviour, so every submitted job may start at once.     *)

Init ==
    /\ _value = <<>>
    /\ current_angle = 0
    /\ pulse = 0
    /\ jobs = <<>>
    /\ log = <<>>
    /\ rsp = [kind |-> "none", ok |-> TRUE, val |-> <<>>, busy |-> 0]
    /\ startup = "connected"

\* Lines 111-127 when run_in_executor (line 119) raises after the parse
\* succeeded (the loop is closed or its default executor is shut down): the
\* raw bytes were stored at line 114, no job is submitted, the handler of
\* lines 124-127 logs the error and returns False.
_set_number_submit_raises(data) ==
    /\ data # None
    /\ Len(log) < MaxWrites
    /\ ParseAngle(data).ok
    /\ log' = Append(log, data)
    /\ _value' = data
    /\ rsp' = Returned("bool", FALSE, <<>>)
    /\ UNCHANGED <<jobs, current_angle, pulse>>

Write == \E data \in Payloads : _set_number(data)

ReadBySetter == _set_number(None)

Worker ==
    \E j \in DOMAIN jobs :
        \/ control_servo_compute(j)
        \/ rotate_servo_begin(j)
        \/ rotate_servo_end(j)
        \/ control_servo_commit(j)

Next == Write \/ ReadBySetter \/ number_characteristic \/ Worker

Spec == Init /\ [][Next /\ UNCHANGED startup]_vars

\* A write whose submission to the executor raises.
WriteSubmitRaises == \E data \in Payloads : _set_number_submit_raises(data)

NextFault == Next \/ WriteSubmitRaises

\* The server with an executor that may refuse a job.
SpecFault == Init /\ [][NextFault /\ UNCHANGED startup]_vars

\* The steps of the job of the j-th accepted command on its pool thread.
JobStep(j) ==
    /\ j \in DOMAIN jobs
    /\ \/ control_servo_compute(j)
       \/ rotate_servo_begin(j)
       \/ rotate_servo_end(j)
       \/ control_servo_commit(j)
    /\ UNCHANGED startup

\* The server with fair worker threads: the default executor gives every
\* submitted job a thread, the thread is scheduled, and time.sleep returns.
\* Nothing is assumed about when, or whether, writes arrive.
SpecLive ==
    /\ Init
    /\ [][Next /\ UNCHANGED startup]_vars
    /\ \A j \in 1..MaxWrites : WF_vars(JobStep(j))

-----------------------------------------------------------------------------
(* The module from its first statement: the connection to the pigpio daemon *)
(* is tried before the service exists.                                      *)

\* Lines 27-29: pi = pigpio.pi(); when pi.connected is false the module
\* calls exit().
pigpio_connect ==
    /\ startup = "pending"
    /\ \E connected \in BOOLEAN :
          startup' = IF connected THEN "connected" ELSE "aborted"
    /\ UNCHANGED <<_value, current_angle, pulse, jobs, log, rsp>>

\* The statements after line 29 run although the connection failed.
Started_without_exit == startup \in {"connected", "aborted"}

\* Lines 28-29: the statements after line 29 (the service, its handler and
\* the jobs) run only when the connection succeeded.
Started == startup = "connected"

InitStartup ==
    /\ _value = <<>>
    /\ current_angle = 0
    /\ pulse = 0
    /\ jobs = <<>>
    /\ log = <<>>
    /\ rsp = [kind |-> "none", ok |-> TRUE, val |-> <<>>, busy |-> 0]
    /\ startup = "pending"

Serve == Started /\ Next /\ UNCHANGED startup

NextStartup == pigpio_connect \/ Serve

SpecStartup == InitStartup /\ [][NextStartup]_vars

-----------------------------------------------------------------------------
(* The delta computation over a range of angles: the tracker holds angle a  *)
(* (the committed target of a finished first command) and a second command  *)
(* with target b has just been accepted; its job computes the delta.        *)

AngleDomain == (-MaxAngle) .. MaxAngle

\* A job of control_servo(target_angle) that ran alone from current_angle = 0.
FinishedJob(target_angle) ==
    [target |-> target_angle, pc |-> "done", seen |-> 0,
     difference_angle |-> Delta(0, target_angle),
     pulse_width |-> DrivePulse(Delta(0, target_angle)),
     time_needed |-> TimeNeeded(Delta(0, target_angle))]

InitDelta ==
    \E a \in AngleDomain, b \in AngleDomain :
        /\ _value = IntBytes(b)
        /\ current_angle = a
        /\ pulse = STOP_PULSE
        /\ jobs = <<FinishedJob(a), NewJob(b)>>
        /\ log = <<IntBytes(a), IntBytes(b)>>
        /\ rsp = [kind |-> "bool", ok |-> TRUE, val |-> <<>>, busy |-> 0]
        /\ startup = "connected"

NextDelta == \E j \in DOMAIN jobs : control_servo_compute(j)

SpecDelta == InitDelta /\ [][NextDelta /\ UNCHANGED startup]_vars

-----------------------------------------------------------------------------
(* One rotation run alone over a range of angles: the tracker holds angle a *)
(* (the committed target of a finished first command) and a second command  *)
(* that repeats the target a, or returns to 0, has just been accepted; its  *)
(* job runs to completion.                                                  *)

InitRotate ==
    \E a \in AngleDomain : \E b \in {0, a} :
        /\ _value = IntBytes(b)
        /\ current_angle = a
        /\ pulse = STOP_PULSE
        /\ jobs = <<FinishedJob(a), NewJob(b)>>
        /\ log = <<IntBytes(a), IntBytes(b)>>
        /\ rsp = [kind |-> "bool", ok |-> TRUE, val |-> <<>>, busy |-> 0]
        /\ startup = "connected"

NextRotate == Worker

SpecRotate == InitRotate /\ [][NextRotate /\ UNCHANGED startup]_vars

-----------------------------------------------------------------------------
(* Vocabulary of the properties. *)

\* The writes of a log that parsed, in arrival order.
Accepted(l) == SelectSeq(l, LAMBDA data : ParseAngle(data).ok)

\* Raw bytes of the most recent write of a log that parsed; empty if none.
LastValidRaw(l) ==
    IF Accepted(l) = <<>> THEN <<>> ELSE Accepted(l)[Len(Accepted(l))]

\* Target of the most recently accepted command.
LastTarget(l) == ParseAngle(LastValidRaw(l)).val

AllDone == \A j \in DOMAIN jobs : jobs[j].pc = "done"

\* Jobs between their read of current_angle and their commit.
InFlight == {j \in DOMAIN jobs : jobs[j].pc \in {"rotate", "hold", "commit"}}

\* Jobs that have computed their delta.
Computed == {j \in DOMAIN jobs : jobs[j].pc # "queued"}

\* The two conventions of the normalized domain: (-180, 180] and [0, 360).
Signed == (-179) .. 180
Unsigned == 0 .. 359
Normalized(a, b) ==
    \/ a \in Signed /\ b \in Signed
    \/ a \in Unsigned /\ b \in Unsigned

\* The shape of the state.
TypeOK ==
    /\ \A j \in DOMAIN jobs : jobs[j].pc \in PcValues
    /\ pulse \in {0, SERVO_MIN_PULSE, SERVO_MAX_PULSE, STOP_PULSE}
    /\ Len(log) <= MaxWrites
    /\ Len(jobs) = Len(Accepted(log))
    /\ rsp.kind \in {"none", "bool", "bytes"}

-----------------------------------------------------------------------------
(* Properties of the system (Spec). *)

\* C1: once every submitted rotation job has finished, the tracked current
\* angle equals the target of the most recently accepted command.
C1_FinalAngleIsLastTarget ==
    (Accepted(log) # <<>> /\ AllDone) => current_angle = LastTarget(log)

\* C2: at no time are two rotation jobs in flight together (between reading
\* the tracked angle and committing the new one).
C2_OneRotationInFlight == Cardinality(InFlight) <= 1

\* C3: the handler can always take the next write, whatever the rotation
\* jobs of earlier writes are doing: acceptance never waits for a rotation.
C3_AcceptNeverWaits ==
    \A data \in Payloads : Len(log) < MaxWrites => ENABLED _set_number(data)

\* C3 witness: a second command was acknowledged while an earlier command's
\* job was in its hold phase.
C3_Witness ==
    /\ rsp.kind = "bool" /\ rsp.ok /\ rsp.busy > 0
    /\ Len(jobs) = 2 /\ jobs[1].pc = "hold" /\ jobs[2].pc = "queued"

\* C4: a write that does not parse leaves the stored value and the tracked
\* angle unchanged and submits nothing; a read that follows it returns the
\* raw bytes of the last valid write before it.
C4_MalformedWriteChangesNothing ==
    [][ /\ \A data \in Payloads :
             (~ParseAngle(data).ok /\ _set_number(data)) =>
                 /\ _value' = _value
                 /\ current_angle' = current_angle
                 /\ jobs' = jobs
                 /\ ~rsp'.ok
        /\ ( /\ log # <<>>
             /\ ~ParseAngle(log[Len(log)]).ok
             /\ (_set_number(None) \/ number_characteristic) ) =>
                 rsp'.val = LastValidRaw(SubSeq(log, 1, Len(log) - 1))
      ]_vars

\* C4 witness: "abc" was written after " -9", and the read that followed
\* returned the bytes of " -9" while the tracked angle was still 0.
C4_Witness ==
    /\ log = << <<32, 45, 57, 194, 160>>, <<97, 98, 99>> >>
    /\ rsp.kind = "bytes"
    /\ rsp.val = <<32, 45, 57, 194, 160>>
    /\ current_angle = 0

\* C5: the stored value, and what a read returns, are exactly the raw bytes
\* of the most recent write that parsed (empty if none), wherever the
\* rotation jobs are.
C5_ReadReturnsLastValidRaw ==
    /\ _value = LastValidRaw(log)
    /\ rsp.kind = "bytes" => rsp.val = LastValidRaw(log)

\* C5 witness: after " -9" (with its whitespace) and then the byte 0xFF, a
\* read returned the padded bytes while the job was still in its hold phase.
C5_Witness ==
    /\ log = << <<32, 45, 57, 194, 160>>, <<255>> >>
    /\ rsp.kind = "bytes"
    /\ rsp.val = <<32, 45, 57, 194, 160>>
    /\ rsp.busy = 1
    /\ jobs[1].pc = "hold"

\* C10: every target is reduced modulo 360 before use: the delta driven is
\* the delta for (target mod 360), it is at most 180 in magnitude, and the
\* tracked angle committed afterwards lies in the normalized domain.
C10_TargetsReducedMod360 ==
    /\ \A j \in Computed :
          /\ jobs[j].difference_angle = Delta(jobs[j].seen, jobs[j].target % 360)
          /\ Abs(jobs[j].difference_angle) <= 180
    /\ current_angle \in Signed \cup Unsigned

\* C13: whenever no rotation job is executing the servo is not driven: the
\* pulse is not a drive pulse, and it is the neutral pulse once any job has
\* run.
C13_NeverLeftEnergized ==
    InFlight = {} =>
        /\ pulse \notin {SERVO_MIN_PULSE, SERVO_MAX_PULSE}
        /\ (\E j \in DOMAIN jobs : jobs[j].pc = "done") => pulse = STOP_PULSE

\* C13 witness: two jobs that both read the tracked angle 0 (they
\* overlapped) have finished and the pulse is neutral.
C13_Witness ==
    /\ Len(jobs) = 2 /\ AllDone
    /\ jobs[1].seen = 0 /\ jobs[2].seen = 0
    /\ jobs[1].time_needed > 0 /\ jobs[2].time_needed > 0
    /\ pulse = STOP_PULSE

\* C14: a write that fails (validation error or any other error inside the
\* handler, such as the job submission raising) changes neither the stored
\* value nor the tracked angle.
C14_FailedWriteChangesNothing ==
    [][ (log' # log /\ ~rsp'.ok) =>
            /\ _value' = _value
            /\ current_angle' = current_angle
      ]_vars

\* C15: every write returns a boolean (it never raises), and on False the
\* stored value has not advanced.
C15_FalseMeansNotAdvanced ==
    [][ log' # log =>
            /\ rsp'.kind = "bool"
            /\ rsp'.ok \in BOOLEAN
            /\ (rsp'.ok = FALSE) => (_value' = _value)
      ]_vars

\* Jobs whose rotate_servo call has passed the zero test of line 40.
Rotated == {j \in DOMAIN jobs : jobs[j].pc \in {"hold", "commit", "done"}}

\* C16: the drive pulse is held for |delta| * k / 60 seconds (here in
\* sixtieths of a millisecond, k = TIME_PER_60_DEG): proportional to |delta|,
\* the same for +d and -d, and zero with no hold at all for delta 0.
C16_DurationLinear ==
    /\ \A j \in Rotated :
          /\ jobs[j].time_needed = Abs(jobs[j].difference_angle) * TIME_PER_60_DEG
          /\ jobs[j].time_needed >= 0
          /\ jobs[j].difference_angle = 0 <=> jobs[j].time_needed = 0
          /\ jobs[j].pc = "hold" => jobs[j].difference_angle # 0
    /\ \A j, k \in Rotated :
          /\ jobs[j].difference_angle = -jobs[k].difference_angle =>
                 jobs[j].time_needed = jobs[k].time_needed
          /\ jobs[j].time_needed * Abs(jobs[k].difference_angle) =
                 jobs[k].time_needed * Abs(jobs[j].difference_angle)

\* C16 witness: the job back from 90 to 0 holds the counter-clockwise pulse
\* for 90 * k, as long as the job from 0 to 90 held the clockwise one.
C16_Witness ==
    /\ jobs[2].pc = "hold"
    /\ jobs[2].difference_angle = -90 /\ jobs[1].difference_angle = 90
    /\ jobs[2].time_needed = 90 * TIME_PER_60_DEG
    /\ jobs[1].time_needed = jobs[2].time_needed
    /\ pulse = SERVO_MIN_PULSE

\* C17: when the connection to the pigpio daemon fails at startup the
\* process aborts: no command is ever accepted, no value stored, no job
\* submitted, the servo never driven, and no further step is possible.
C17_FailedConnectAborts ==
    startup # "connected" =>
        /\ log = <<>>
        /\ _value = <<>>
        /\ jobs = <<>>
        /\ pulse = 0
        /\ current_angle = 0
        /\ rsp.kind = "none"
        /\ startup = "aborted" => ~ENABLED Serve

\* C17 witness: the connection failed and the process has exited.
C17_Witness ==
    /\ startup = "aborted"
    /\ log = <<>> /\ jobs = <<>> /\ pulse = 0

\* C18: from the moment a job sets its drive pulse until that job sets the
\* neutral pulse, the servo signal equals that job's drive pulse.
C18_HoldKeepsOwnPulse ==
    \A j \in DOMAIN jobs : jobs[j].pc = "hold" => pulse = jobs[j].pulse_width

\* Sum of the deltas that rotate_servo has driven for the first n jobs.
RECURSIVE DrivenSum(_)
DrivenSum(n) ==
    IF n = 0 THEN 0
    ELSE DrivenSum(n - 1) +
         (IF jobs[n].pc \in {"commit", "done"}
          THEN jobs[n].difference_angle ELSE 0)

\* C19: whenever no rotation job is executing, the tracked angle equals the
\* initial angle 0 plus the sum of the deltas driven so far, modulo 360.
C19_TrackedMatchesMotion ==
    InFlight = {} => (current_angle - DrivenSum(Len(jobs))) % 360 = 0

\* C20 as stated: the jobs submitted are exactly the writes that parsed, in
\* order, each with its parsed target.
C20_OneJobPerParsedWrite ==
    /\ Len(jobs) = Len(Accepted(log))
    /\ \A i \in DOMAIN jobs :
          i <= Len(Accepted(log)) =>
              jobs[i].target = ParseAngle(Accepted(log)[i]).val

\* C20, amended: exactly one rotation job is submitted per accepted write
\* (one that returns True), carrying its parsed target, with the raw bytes
\* stored by then; a write that returns False (malformed, or parsed but
\* refused by the executor) and a read submit no job.
C20_OneJobPerAcceptedWrite ==
    [][ IF log' # log
        THEN LET data == log'[Len(log')]
             IN  IF rsp'.kind = "bool" /\ rsp'.ok
                 THEN /\ ParseAngle(data).ok
                      /\ Len(jobs') = Len(jobs) + 1
                      /\ SubSeq(jobs', 1, Len(jobs)) = jobs
                      /\ jobs'[Len(jobs')].target = ParseAngle(data).val
                      /\ jobs'[Len(jobs')].pc = "queued"
                      /\ _value' = data
                 ELSE jobs' = jobs
        ELSE Len(jobs') = Len(jobs)
      ]_vars

\* C20 witness: of two writes that parsed, the first was refused by the
\* executor and the second accepted; one job exists, with the second target.
C20_Witness ==
    /\ Len(log) = 2 /\ Len(Accepted(log)) = 2
    /\ Len(jobs) = 1
    /\ jobs[1].target = ParseAngle(log[2]).val
    /\ log[1] # log[2]
    /\ _value = log[2]
    /\ rsp.kind = "bool" /\ rsp.ok

\* C21: under fair scheduling of the worker jobs every submitted job
\* eventually finishes (it has set the neutral pulse and committed its
\* target), and once writes stop the system settles with no job queued or
\* executing and the servo at the neutral pulse.
C21_JobsEventuallyComplete ==
    /\ \A j \in 1..MaxWrites :
          (Len(jobs) >= j) ~> (Len(jobs) >= j /\ jobs[j].pc = "done")
    /\ <>[](/\ AllDone
            /\ InFlight = {}
            /\ jobs # <<>> => pulse = STOP_PULSE)

\* C21 witness: two accepted commands with different targets have both run
\* to the end; the servo is at neutral and the tracked angle is one of the
\* committed targets.
C21_Witness ==
    /\ Len(jobs) = MaxWrites /\ AllDone
    /\ jobs[1].target # jobs[2].target
    /\ jobs[1].difference_angle # 0 /\ jobs[2].difference_angle # 0
    /\ pulse = STOP_PULSE
    /\ current_angle \in {jobs[j].target : j \in DOMAIN jobs}

-----------------------------------------------------------------------------
(* Properties of the delta computation (SpecDelta). *)

\* C6: for current and target angles in the normalized domain the computed
\* delta is at most 180 in magnitude.
C6_DeltaAtMostHalfTurn ==
    \A j \in Computed :
        Normalized(jobs[j].seen, jobs[j].target) =>
            Abs(jobs[j].difference_angle) <= 180

\* C6 witness: from -170 to 170 the raw difference 340 was shortened to -20.
C6_Witness ==
    /\ jobs[2].pc = "rotate" /\ jobs[2].seen = -170 /\ jobs[2].target = 170
    /\ jobs[2].difference_angle = -20

\* C7: the current angle plus the computed delta is the target, modulo 360.
C7_DeltaReachesTarget ==
    \A j \in Computed :
        (jobs[j].seen + jobs[j].difference_angle) % 360 = jobs[j].target % 360

\* C7 witness: from -350 to 350 (both outside one turn's signed range) the
\* delta 340 was computed.
C7_Witness ==
    /\ jobs[2].pc = "rotate" /\ jobs[2].seen = -350 /\ jobs[2].target = 350
    /\ jobs[2].difference_angle = 340

\* C8: the delta lies in (-180, 180]: a half-turn tie is always +180.
C8_DeltaHalfOpenRange ==
    \A j \in Computed :
        Normalized(jobs[j].seen, jobs[j].target) =>
            jobs[j].difference_angle \in (-179) .. 180

\* C9: the delta from a to b is the negation of the delta from b to a, for
\* a and b in the normalized domain.
C9_DeltaSymmetry ==
    \A j \in Computed :
        Normalized(jobs[j].seen, jobs[j].target) =>
            jobs[j].difference_angle = -Delta(jobs[j].target, jobs[j].seen)

\* C9 witness: the half-turn tie from 0 to 180, computed as +180.
C9_Witness ==
    /\ jobs[2].pc = "rotate" /\ jobs[2].seen = 0 /\ jobs[2].target = 180
    /\ jobs[2].difference_angle = 180

\* The reference algorithm: raw = target - current, kept when |raw| <= 180,
\* else the complementary arc.
RefDelta(current, target_angle) ==
    LET raw == target_angle - current
    IN  IF raw > 180 THEN raw - 360
        ELSE IF raw < -180 THEN raw + 360
        ELSE raw

\* The five scenarios: <<current, target, delta, pulse>>.
Scenarios ==
    { <<20, 30, 10, SERVO_MAX_PULSE>>,
      <<-20, -30, -10, SERVO_MIN_PULSE>>,
      <<-20, 30, 50, SERVO_MAX_PULSE>>,
      <<-170, 170, -20, SERVO_MIN_PULSE>>,
      <<170, -170, 20, SERVO_MAX_PULSE>> }

\* C11: every computed delta is the reference algorithm's, a positive delta
\* goes with the max pulse (CW) and a negative one with the min pulse (CCW),
\* and the five scenarios come out as listed.
C11_MatchesReference ==
    \A j \in Computed :
        /\ jobs[j].difference_angle = RefDelta(jobs[j].seen, jobs[j].target)
        /\ jobs[j].difference_angle > 0 => jobs[j].pulse_width = SERVO_MAX_PULSE
        /\ jobs[j].difference_angle < 0 => jobs[j].pulse_width = SERVO_MIN_PULSE
        /\ \A s \in Scenarios :
              (jobs[j].seen = s[1] /\ jobs[j].target = s[2]) =>
                  (jobs[j].difference_angle = s[3] /\ jobs[j].pulse_width = s[4])

\* C11 witness: scenario 5, from 170 to -170: delta 20, clockwise.
C11_Witness ==
    /\ jobs[2].pc = "rotate" /\ jobs[2].seen = 170 /\ jobs[2].target = -170
    /\ jobs[2].difference_angle = 20 /\ jobs[2].pulse_width = SERVO_MAX_PULSE

-----------------------------------------------------------------------------
(* Properties of a rotation run alone (SpecRotate). *)

\* C12: a command whose target equals the tracked angle a computes delta 0;
\* its rotate_servo sets the neutral pulse and returns without a drive pulse
\* and without a hold; the commit leaves the tracked angle at a.
C12_SameTargetNoMotion ==
    [][ \A j \in DOMAIN jobs :
          /\ (control_servo_compute(j) /\ jobs[j].target = current_angle) =>
                 jobs'[j].difference_angle = 0
          /\ (rotate_servo_begin(j) /\ jobs[j].target = jobs[j].seen) =>
                 /\ pulse' = STOP_PULSE
                 /\ jobs'[j].pc = "commit"
                 /\ jobs'[j].time_needed = 0
          /\ (control_servo_commit(j) /\ jobs[j].target = jobs[j].seen) =>
                 current_angle' = jobs[j].seen
      ]_vars

\* C12 witness: at tracked angle 45 a command for 45 ran to the end: delta 0,
\* no hold time, neutral pulse, tracked angle still 45.
C12_Witness ==
    /\ jobs[2].pc = "done" /\ jobs[2].seen = 45 /\ jobs[2].target = 45
    /\ jobs[2].difference_angle = 0 /\ jobs[2].time_needed = 0
    /\ pulse = STOP_PULSE
    /\ current_angle = 45

=============================================================================
